---- MODULE Spec2Model ----
(***************************************************************************)
(* Download coordination of lbrynet.daemon.Daemon: the self.streams        *)
(* registry of GetStream objects, jsonrpc_get / _download_name,            *)
(* jsonrpc_file_delete and _stop_streams, run on one reactor (event loop). *)
(* Every action is the code between two suspension points (yield of an     *)
(* unfired Deferred) of one inlineCallbacks coroutine.  Callbacks that a   *)
(* firing Deferred runs in the same reactor turn are queued in runq and    *)
(* run before any other event is taken.  A call that has returned and a    *)
(* GetStream object nothing refers to any more are cleared at once, so     *)
(* that a state holds the live calls and objects only.                     *)
(***************************************************************************)
EXTENDS Integers, Sequences, FiniteSets, TLC

NumCallers == 2        \* concurrent jsonrpc_get calls
NumKeys == 2           \* distinct sd hashes
MaxSessions == 2       \* GetStream objects alive at one time
MaxStreams == 3        \* GetStream objects constructed in one run
NumNodes == 2          \* node ids the DHT knows
NumHosts == 2          \* hosts the DHT knows
MaxPeers == 2          \* contacts one iterativeFindValue returns

Callers == 1..NumCallers
Keys == 1..NumKeys
Sessions == 1..MaxSessions

INITIALIZING_CODE == "initializing"
DOWNLOAD_METADATA_CODE == "downloading_metadata"
DOWNLOAD_RUNNING_CODE == "running"
DOWNLOAD_STOPPED_CODE == "stopped"
SHUTDOWN_REASON == "daemon shutdown"

VARIABLES
    streams,       \* self.streams: sd_hash -> GetStream (0: key absent)
    sess,          \* the GetStream objects (started = "unused": a free slot)
    lbry_files,    \* sd hashes of file_manager.lbry_files
    call,          \* per jsonrpc_get call: position, sd_hash, session, result
    nstreams,      \* GetStream objects constructed so far
    runq,          \* calls whose awaited Deferred fired in this reactor turn
    shutdown,      \* _shutdown has run _stop_streams
    runAtCancel,   \* history: the sessions that were Running when _stop_streams ran
    probe,         \* the _blob_availability call
    areport,       \* the _get_stream_analytics_report call
    est,           \* the get_est_cost call
    avail,         \* the jsonrpc_stream_availability call
    blobs          \* the blob hashes in session.blob_manager.blobs

vars == <<streams, sess, lbry_files, call, nstreams, runq, shutdown, runAtCancel,
          probe, areport, est, avail, blobs>>

\* GetStream.__init__: no code, no downloader, finished_deferred None,
\* data_downloading_deferred a fresh Deferred.
\*   started  the state of the start() call made by _download_name
\*   ddd, fd  data_downloading_deferred, finished_deferred
\*   cb       _download_name attached its callbacks to finished_deferred
\*   rep      the attached callbacks that run and wait for their report
\*   events   the analytics events sent for the session's download_id
\*   outcome  history: what the creating _download_name call returned,
\*            kept for the calls attached to the session
NoSession ==
    [key |-> 0, code |-> "none", downloader |-> FALSE, started |-> "unused",
     ddd |-> "pending", fd |-> "none", cb |-> FALSE, cancelled |-> "none",
     rep |-> {}, events |-> <<>>, outcome |-> "none"]

GetStream(k) == [NoSession EXCEPT !.key = k]

\* GetStream.start up to its first suspension: set_status(INITIALIZING_CODE)
GetStreamStart(g) == [g EXCEPT !.code = INITIALIZING_CODE, !.started = "pending"]

IdleCall == [pc |-> "idle", key |-> 0, role |-> "none", sess |-> 0,
             result |-> "none", afail |-> FALSE]

\* search_timeout=None, blob_timeout=None
NoTimeouts == [search_timeout |-> "None", blob_timeout |-> "None"]

\* _blob_availability before it is called: result = {}, is_available =
\* False, reachable_peers = [], unreachable_peers = [].
\*   args      the search_timeout and blob_timeout the caller passed
\*   search_timeout, blob_timeout   the locals after lines 645-646
\*   lookup_timeout  the timeout jsonrpc_peer_list put on the lookup
\*   dl_timeouts     the timeouts of the fetch attempts
\*   found     what iterativeFindValue has for the blob hash
\*   lookup    how jsonrpc_peer_list ended
\*   peers     the list jsonrpc_peer_list returned
\*   dl        the fetch attempts, dl_peers their peers' addresses
\*   result    the local dict `result` (only 'error' is ever set in it)
\*   raised    history: the errors raised during the call, in order
\*   response  the dict the call returns
IdleProbe ==
    [pc |-> "idle", args |-> NoTimeouts, search_timeout |-> "none",
     blob_timeout |-> "none", lookup_timeout |-> "none", dl_timeouts |-> <<>>,
     found |-> <<>>, lookup |-> "none", peers |-> <<>>,
     dl |-> <<>>, dl_peers |-> <<>>, result |-> "none", raised |-> <<>>,
     response |-> [is_available |-> FALSE, reachable_peers |-> <<>>,
                   unreachable_peers |-> <<>>]]

\* _get_stream_analytics_report before it is called
\*   failed    history: the lookups that raised
\*   out       "report" once the report is returned, "raised" if the call raised
IdleReport ==
    [pc |-> "idle", stream_hash |-> "None", sd_blob |-> "None", known_blobs |-> 0,
     failed |-> {}, out |-> "none"]

\* a dict with no key
EmptyDict == <<>>

\* the size argument of get_est_cost: None, or an int or a float of bytes
NoSize == [kind |-> "None", bytes |-> 0]

\* what wallet.resolve has not answered yet
NoResolution == [raises |-> "none", results |-> EmptyDict]

\* get_est_cost before it is called
\*   generous  session.payment_rate_manager.generous
\*   rate      conf.settings['data_rate']
\*   cost      the local `cost` of get_est_cost_using_known_size
\*   sd_fetch  how the retrieval of the descriptor blob will end
\*   resolved  history: what wallet.resolve answered
\*   fetched   history: get_or_download_sd_blob was called
\*   result    "None", "cost" (value holds the number) or "raised"
IdleEst ==
    [pc |-> "idle", uri |-> "none", size |-> NoSize, generous |-> FALSE, rate |-> 0,
     sd_fetch |-> "none", cost |-> 0, resolved |-> NoResolution, sd_hash |-> 0, fee |-> 0,
     fetched |-> FALSE, result |-> "none", value |-> 0, raised |-> "none"]

\* a response dict first built with did_decode True
AvailResponse_decoded(use_upnp, upnp_redirect_is_set) ==
    [is_available |-> "False", did_decode |-> TRUE, did_resolve |-> FALSE,
     is_stream |-> FALSE, num_blobs_in_stream |-> "None", sd_hash |-> 0,
     sd_blob_availability |-> EmptyDict, head_blob_hash |-> 0,
     head_blob_availability |-> EmptyDict, use_upnp |-> use_upnp,
     upnp_redirect_is_set |-> upnp_redirect_is_set, error |-> "None"]

\* the response dict of jsonrpc_stream_availability as first built
AvailResponse(use_upnp, upnp_redirect_is_set) ==
    [is_available |-> "False", did_decode |-> FALSE, did_resolve |-> FALSE,
     is_stream |-> FALSE, num_blobs_in_stream |-> "None", sd_hash |-> 0,
     sd_blob_availability |-> EmptyDict, head_blob_hash |-> 0,
     head_blob_availability |-> EmptyDict, use_upnp |-> use_upnp,
     upnp_redirect_is_set |-> upnp_redirect_is_set, error |-> "None"]

\* jsonrpc_stream_availability before it is called
\*   sd_fetch      how the fetch of the descriptor blob will end
\*   args          the search_timeout and blob_timeout the caller passed
\*   search_timeout, blob_timeout   the locals after lines 3066-3067
\*   resolved      history: what wallet.resolve answered
\*   have_sd_blob  sd_hash in self.session.blob_manager.blobs at line 3110
\*   blobs0        history: blob_manager.blobs when the call started
\*   fetched       history: jsonrpc_blob_get was called
\*   probed        history: the blob hashes _blob_availability was called with
\*   result        "returned" (response is the value) or "raised"
IdleAvail ==
    [pc |-> "idle", uri |-> "none",
     sd_fetch |-> "none", args |-> NoTimeouts, search_timeout |-> "none",
     blob_timeout |-> "none",
     resolved |-> NoResolution, have_sd_blob |-> FALSE, blobs0 |-> {},
     fetched |-> FALSE, probed |-> <<>>, head_blob_hash |-> 0,
     response |-> AvailResponse(FALSE, FALSE), result |-> "none", raised |-> "none"]

Init ==
    /\ streams = [k \in Keys |-> 0]
    /\ sess = [s \in Sessions |-> NoSession]
    /\ lbry_files = {}
    /\ call = [p \in Callers |-> IdleCall]
    /\ nstreams = 0
    /\ runq = {}
    /\ shutdown = FALSE
    /\ runAtCancel = {}
    /\ probe = IdleProbe
    /\ areport = IdleReport
    /\ est = IdleEst
    /\ avail = IdleAvail
    /\ blobs = {}

\* sd_hash in self.streams
InStreams(k) == streams[k] # 0

\* self.streams[sd_hash] = GetStream(...)
RegisterStream_skip(k, s) == streams
RegisterStream(k, s) == [streams EXCEPT ![k] = s]

\* del self.streams[sd_hash]; with the key gone it raises KeyError and
\* leaves the registry as it is
DelStream_all(k) == [j \in Keys |-> 0]
DelStream(k) == [streams EXCEPT ![k] = 0]

\* the finally clause of _download_name: del self.streams[sd_hash], run on
\* return and while an exception propagates (raising)
Finally_onlyOnReturn(k, raising) == IF raising THEN streams ELSE DelStream(k)
Finally(k, raising) == DelStream(k)

\* what a creating call gives its caller once the finally clause has run
FinallyResult(k, res) == IF InStreams(k) THEN res ELSE "KeyError"

Finish(p, res) == [call[p] EXCEPT !.pc = "done", !.result = res]

\* the calls suspended on a Deferred of session s
DddWaiters(s) == {p \in Callers : call[p].pc = "wait_ddd" /\ call[p].sess = s}
FdWaiters(s) == {p \in Callers : call[p].pc = "wait_fd" /\ call[p].sess = s}
StartWaiters(s) == {p \in Callers : call[p].pc = "start" /\ call[p].sess = s}

\* a fired finished_deferred with the Daemon's callbacks attached starts
\* _download_finished / _download_failed, which first await the report
FdCallbacks_swapped(g) ==
    IF ~g.cb THEN g.rep
    ELSE IF g.fd \in {"ok", "err"} THEN g.rep \cup {"finished"}
    ELSE g.rep
FdCallbacks(g) ==
    IF ~g.cb THEN g.rep
    ELSE IF g.fd = "ok" THEN g.rep \cup {"finished"}
    ELSE IF g.fd = "err" THEN g.rep \cup {"errored"}
    ELSE g.rep

\* the slot of the next GetStream object
FreeSlots == {s \in Sessions : sess[s].started = "unused"}
NewSlot == CHOOSE s \in FreeSlots : \A t \in FreeSlots : s <= t

\* what `yield downloader.finished_deferred` gives once the Deferred has
\* fired: the callback chain's current value (None after the Daemon's own
\* callbacks ran, GetStream.finish's download path before), or its failure
FdResult(g) ==
    IF g.fd = "none" THEN "None"
    ELSE IF g.cb THEN "None"
    ELSE IF g.fd = "ok" THEN "download_path"
    ELSE "raised"

\* nothing refers to GetStream object s any more and nothing will fire in
\* it: it is not registered, no call holds it, its start has settled, its
\* transfer has ended and its callbacks have run
DeadIn(s, st, cl) ==
    /\ sess[s].started \in {"returned", "raised"}
    /\ sess[s].fd # "pending"
    /\ sess[s].rep = {}
    /\ \A k \in Keys : st[k] # s
    /\ \A p \in Callers : cl[p].sess # s
Dead(s) == DeadIn(s, streams, call)

\* the reactor turn is over: no callback is queued, no returned call and
\* no dead object is left to clear
Quiet ==
    /\ runq = {}
    /\ \A p \in Callers : call[p].pc # "done"
    /\ \A s \in Sessions : ~Dead(s)


\* _download_name up to its first suspension.  ok: send_download_started
\* does not raise.
DownloadName(p, k, ok) ==
    IF InStreams(k)
    THEN LET s == streams[k]
             g == sess[s]
             c == [call[p] EXCEPT !.key = k, !.role = "attached", !.sess = s]
         IN  /\ call' = [call EXCEPT ![p] =
                   IF g.fd = "pending"
                   THEN [c EXCEPT !.pc = "wait_fd"]
                   ELSE [c EXCEPT !.pc = "done", !.result = FdResult(g)]]
             /\ UNCHANGED <<streams, sess, nstreams>>
    ELSE IF ~ok
    THEN /\ call' = [call EXCEPT ![p] =
               [@ EXCEPT !.key = k, !.pc = "done", !.result = "raised",
                         !.afail = TRUE]]
         /\ UNCHANGED <<streams, sess, nstreams>>
    ELSE /\ FreeSlots # {}
         /\ nstreams < MaxStreams
         /\ nstreams' = nstreams + 1
         /\ sess' = [sess EXCEPT ![NewSlot] =
               [GetStreamStart(GetStream(k)) EXCEPT !.events = <<"started">>]]
         /\ streams' = RegisterStream(k, NewSlot)
         /\ call' = [call EXCEPT ![p] =
               [@ EXCEPT !.key = k, !.pc = "start", !.role = "creator",
                         !.sess = NewSlot]]

\* jsonrpc_get from _get_lbry_file on: a file the file manager has is
\* described, after lbry_file.start() when it is missing in the download
\* directory (the restart and the description read no state of the
\* registry, the call is taken to return with them), otherwise
\* _download_name is entered.
\* att: the session the call waited on, or 0
GetLbryFile(p, k, ok, att) ==
    IF k \in lbry_files
    THEN /\ call' = [call EXCEPT ![p] =
               [@ EXCEPT !.key = k, !.pc = "done", !.result = "file_dict",
                         !.sess = att,
                         !.role = IF att # 0 THEN "attached" ELSE "existing"]]
         /\ UNCHANGED <<streams, sess, nstreams>>
    ELSE DownloadName(p, k, ok)

\* jsonrpc_get, after the uri resolved to sd_hash k
JsonrpcGet(p, k, ok) ==
    /\ Quiet
    /\ ~shutdown
    /\ call[p].pc = "idle"
    /\ IF InStreams(k)
       THEN LET s == streams[k]
                c == [call[p] EXCEPT !.key = k, !.role = "attached", !.sess = s]
            IN  CASE sess[s].ddd = "pending" ->
                       /\ call' = [call EXCEPT ![p] = [c EXCEPT !.pc = "wait_ddd"]]
                       /\ UNCHANGED <<streams, sess, nstreams>>
                  [] sess[s].ddd = "err" ->
                       /\ call' = [call EXCEPT ![p] =
                             [c EXCEPT !.pc = "done", !.result = "raised"]]
                       /\ UNCHANGED <<streams, sess, nstreams>>
                  [] OTHER -> GetLbryFile(p, k, ok, s)
       ELSE GetLbryFile(p, k, ok, 0)
    /\ UNCHANGED <<lbry_files, runq, shutdown, runAtCancel, probe, areport,
                   est, avail, blobs>>

\* a call resumed by the Deferred it waited on
Resume(p) ==
    /\ p \in runq
    /\ \A q \in Callers : call[q].pc # "done"
    /\ runq' = runq \ {p}
    /\ LET c == call[p]
           g == sess[c.sess]
       IN CASE c.pc = "wait_ddd" ->
                 \E ok \in BOOLEAN :
                   IF g.ddd = "ok"
                   THEN GetLbryFile(p, c.key, ok, c.sess)
                   ELSE /\ call' = [call EXCEPT ![p] = Finish(p, "raised")]
                        /\ UNCHANGED <<streams, sess, nstreams>>
            [] c.pc = "wait_fd" ->
                 /\ call' = [call EXCEPT ![p] = Finish(p, FdResult(g))]
                 /\ UNCHANGED <<streams, sess, nstreams>>
            [] c.pc = "start" ->
                 IF g.started = "returned"
                 THEN \* finished_deferred.addCallbacks(...); yield _get_lbry_file_dict
                      /\ sess' = [sess EXCEPT ![c.sess] =
                            [g EXCEPT !.cb = TRUE,
                                      !.rep = FdCallbacks([g EXCEPT !.cb = TRUE])]]
                      /\ call' = [call EXCEPT ![p] = [c EXCEPT !.pc = "file_dict"]]
                      /\ UNCHANGED <<streams, nstreams>>
                 ELSE \* except Exception: yield _download_failed(...)
                      /\ call' = [call EXCEPT ![p] = [c EXCEPT !.pc = "download_failed"]]
                      /\ UNCHANGED <<streams, sess, nstreams>>
    /\ UNCHANGED <<lbry_files, shutdown, runAtCancel, probe, areport,
                   est, avail, blobs>>

\* history: the value the creating call of a session returned
Outcome(ss, p, res) ==
    IF \E q \in Callers : q # p /\ call[q].sess = call[p].sess
    THEN [ss EXCEPT ![call[p].sess].outcome = res]
    ELSE ss

\* _download_name resumed from `yield self._get_lbry_file_dict(...)`;
\* ok: the file description was produced, otherwise it raised into the
\* except clause
FileDictDone(p, ok) ==
    /\ Quiet
    /\ call[p].pc = "file_dict"
    /\ IF ok
       THEN /\ call' = [call EXCEPT ![p] =
                  Finish(p, FinallyResult(call[p].key, "file_dict"))]
            /\ streams' = Finally(call[p].key, FALSE)
            /\ sess' = Outcome(sess, p, FinallyResult(call[p].key, "file_dict"))
       ELSE /\ call' = [call EXCEPT ![p] = [@ EXCEPT !.pc = "download_failed"]]
            /\ streams' = streams
            /\ sess' = sess
    /\ UNCHANGED <<lbry_files, nstreams, runq, shutdown, runAtCancel, probe, areport,
                   est, avail, blobs>>

\* _download_name resumed from `yield _download_failed(...)` in the except
\* clause; ok: the report was built and send_download_errored returned
DownloadFailedDone(p, ok) ==
    /\ Quiet
    /\ call[p].pc = "download_failed"
    /\ LET c == call[p]
           k == c.key
           own == sess[c.sess]
       IN IF ~ok
          THEN \* the exception leaves the except clause through finally
               /\ call' = [call EXCEPT ![p] =
                     [Finish(p, FinallyResult(k, "raised")) EXCEPT !.afail = TRUE]]
               /\ streams' = Finally(k, TRUE)
               /\ sess' = Outcome(sess, p, FinallyResult(k, "raised"))
          ELSE LET logged == [own EXCEPT !.events = Append(@, "errored")]
                   sess1 == [sess EXCEPT ![c.sess] = logged]
               IN IF ~InStreams(k)
                  THEN \* self.streams[sd_hash] raises KeyError, finally too
                       /\ call' = [call EXCEPT ![p] = Finish(p, "KeyError")]
                       /\ streams' = Finally(k, TRUE)
                       /\ sess' = Outcome(sess1, p, "KeyError")
                  ELSE LET s2 == streams[k]
                       IN IF sess1[s2].downloader /\ sess1[s2].code # DOWNLOAD_RUNNING_CODE
                          THEN \* yield self.streams[sd_hash].downloader.stop(err)
                               /\ sess' = sess1
                               /\ call' = [call EXCEPT ![p] = [c EXCEPT !.pc = "stopping"]]
                               /\ streams' = streams
                          ELSE /\ sess' = Outcome(sess1, p, "error_dict")
                               /\ call' = [call EXCEPT ![p] = Finish(p, "error_dict")]
                               /\ streams' = Finally(k, FALSE)
    /\ UNCHANGED <<lbry_files, nstreams, runq, shutdown, runAtCancel, probe, areport,
                   est, avail, blobs>>

\* _download_name resumed from `yield ...downloader.stop(err)`
StopDone(p) ==
    /\ Quiet
    /\ call[p].pc = "stopping"
    /\ call' = [call EXCEPT ![p] = Finish(p, FinallyResult(call[p].key, "error_dict"))]
    /\ streams' = Finally(call[p].key, FALSE)
    /\ sess' = Outcome(sess, p, FinallyResult(call[p].key, "error_dict"))
    /\ UNCHANGED <<lbry_files, nstreams, runq, shutdown, runAtCancel, probe, areport,
                   est, avail, blobs>>

\* the response has been rendered; the caller may call again, and a
\* GetStream object only this call referred to is freed
Return(p) ==
    /\ call[p].pc = "done"
    /\ call' = [call EXCEPT ![p] = IdleCall]
    /\ LET freed == {s \in Sessions : DeadIn(s, streams, call')}
       IN /\ sess' = [s \in Sessions |-> IF s \in freed THEN NoSession ELSE sess[s]]
          /\ runAtCancel' = runAtCancel \ freed
    /\ UNCHANGED <<streams, lbry_files, nstreams, runq, shutdown, probe, areport,
                   est, avail, blobs>>

\* a GetStream object nothing refers to is freed
Collect(s) ==
    /\ runq = {}
    /\ \A p \in Callers : call[p].pc # "done"
    /\ Dead(s)
    /\ sess' = [sess EXCEPT ![s] = NoSession]
    /\ runAtCancel' = runAtCancel \ {s}
    /\ UNCHANGED <<streams, lbry_files, call, nstreams, runq, shutdown, probe, areport,
                   est, avail, blobs>>

\* GetStream.start waits in `yield self.data_downloading_deferred`
WaitingOnDdd(g) == g.started = "pending" /\ g.fd # "none"

\* somebody can still see data_downloading_deferred of session s fire
Observed(s) ==
    \/ sess[s].started = "pending"
    \/ DddWaiters(s) # {}
    \/ \E k \in Keys : streams[k] = s

\* the calls woken when session s changes from g to h
Woken(s, g, h) ==
    (IF g.ddd # h.ddd THEN DddWaiters(s) ELSE {})
    \cup (IF g.fd # h.fd /\ h.fd # "pending" THEN FdWaiters(s) ELSE {})
    \cup (IF g.started # h.started THEN StartWaiters(s) ELSE {})

\* one session takes a step of its own
SessionStep(s, h) ==
    /\ Quiet
    /\ sess' = [sess EXCEPT ![s] = h]
    /\ runq' = Woken(s, sess[s], h)
    /\ UNCHANGED <<streams, call, nstreams, shutdown, runAtCancel, probe, areport,
                   est, avail, blobs>>

\* start: Initializing is over, the descriptor is being fetched
SessFetchingMetadata(s) ==
    /\ sess[s].started = "pending"
    /\ sess[s].code = INITIALIZING_CODE
    /\ SessionStep(s, [sess[s] EXCEPT !.code = DOWNLOAD_METADATA_CODE])
    /\ UNCHANGED lbry_files

\* start: the descriptor arrived, the downloader was created (which adds
\* the file to the file manager) and started; start now waits for
\* data_downloading_deferred, which may have fired already
SessRunning(s) ==
    /\ sess[s].started = "pending"
    /\ sess[s].code = DOWNLOAD_METADATA_CODE
    /\ SessionStep(s, [sess[s] EXCEPT
            !.downloader = TRUE, !.fd = "pending", !.code = DOWNLOAD_RUNNING_CODE,
            !.started = IF sess[s].ddd = "err" THEN "raised" ELSE "pending"])
    /\ lbry_files' = lbry_files \cup {sess[s].key}

\* start raises before the transfer runs: the descriptor timed out
\* (dl = FALSE), or the downloader was created and paying the key fee
\* failed (dl = TRUE)
StartRaises(s, dl) ==
    /\ sess[s].started = "pending"
    /\ sess[s].fd = "none"
    /\ dl => sess[s].code = DOWNLOAD_METADATA_CODE
    /\ SessionStep(s, [sess[s] EXCEPT !.started = "raised", !.downloader = dl])
    /\ lbry_files' = IF dl THEN lbry_files \cup {sess[s].key} ELSE lbry_files

\* the downloader has a completed data blob: data_downloading_deferred.callback
DataDownloading(s) ==
    /\ sess[s].ddd = "pending"
    /\ sess[s].downloader
    /\ Observed(s)
    /\ SessionStep(s, [sess[s] EXCEPT
            !.ddd = "ok",
            !.started = IF WaitingOnDdd(sess[s]) THEN "returned" ELSE @])
    /\ UNCHANGED lbry_files

\* the download timeout passed: data_downloading_deferred.errback
DddTimeout(s) ==
    /\ sess[s].ddd = "pending"
    /\ sess[s].started # "unused"
    /\ Observed(s)
    /\ SessionStep(s, [sess[s] EXCEPT
            !.ddd = "err",
            !.started = IF WaitingOnDdd(sess[s]) THEN "raised" ELSE @])
    /\ UNCHANGED lbry_files

\* the transfer completed: finished_deferred fires with the result, the
\* session is Stopped; a completed transfer has data, so
\* data_downloading_deferred fires with it if it had not
TransferFinished(s) ==
    /\ sess[s].fd = "pending"
    /\ LET h == [sess[s] EXCEPT
                   !.fd = "ok", !.code = DOWNLOAD_STOPPED_CODE,
                   !.ddd = IF @ = "pending" THEN "ok" ELSE @,
                   !.started = IF WaitingOnDdd(sess[s]) /\ sess[s].ddd = "pending"
                               THEN "returned" ELSE @]
       IN SessionStep(s, [h EXCEPT !.rep = FdCallbacks(h)])
    /\ UNCHANGED lbry_files

\* the transfer failed: finished_deferred fires with the failure
TransferFailed(s) ==
    /\ sess[s].fd = "pending"
    /\ LET h == [sess[s] EXCEPT !.fd = "err"]
       IN SessionStep(s, [h EXCEPT !.rep = FdCallbacks(h)])
    /\ UNCHANGED lbry_files

\* _download_finished / _download_failed run as callbacks of
\* finished_deferred: the report arrived and the event is sent; ok: neither
\* raised (a failure ends in the Deferred and reaches no caller)
ReportDone(s, kind, ok) ==
    /\ kind \in sess[s].rep
    /\ SessionStep(s, [sess[s] EXCEPT
            !.rep = @ \ {kind},
            !.events = IF ok THEN Append(@, kind) ELSE @])
    /\ UNCHANGED lbry_files

\* GetStream.cancel(reason): the stop signal; the Deferreds that have not
\* fired fail with the reason
Cancel(g, reason) ==
    LET h == [g EXCEPT
                !.cancelled = reason,
                !.fd = IF @ = "pending" THEN "err" ELSE @,
                !.ddd = IF @ = "pending" THEN "err" ELSE @,
                !.started = IF WaitingOnDdd(g) /\ g.ddd = "pending" THEN "raised" ELSE @]
    IN [h EXCEPT !.rep = IF g.fd = "pending" THEN FdCallbacks(h) ELSE @]

\* the transfer of a session is in the Running state
Running(g) == g.code = DOWNLOAD_RUNNING_CODE /\ g.fd = "pending"

\* for sd_hash, stream in self.streams.items()
StopTargets_first == {streams[k] : k \in {j \in Keys : j = 1}} \ {0}
StopTargets == {streams[k] : k \in Keys} \ {0}

\* _stop_streams, called by _shutdown
StopStreams ==
    /\ Quiet
    /\ ~shutdown
    /\ shutdown' = TRUE
    /\ runAtCancel' = {s \in Sessions : Running(sess[s])}
    /\ sess' = [s \in Sessions |->
          IF s \in StopTargets THEN Cancel(sess[s], SHUTDOWN_REASON) ELSE sess[s]]
    /\ runq' = UNION {Woken(s, sess[s], sess'[s]) : s \in Sessions}
    /\ UNCHANGED <<streams, lbry_files, call, nstreams, probe, areport,
                   est, avail, blobs>>

\* delete_lbry_file stops the file's transfer, whose finished_deferred
\* fires
Deleted(g) ==
    LET h == [g EXCEPT !.fd = IF @ = "pending" THEN "ok" ELSE @,
                       !.code = IF g.fd = "pending" THEN DOWNLOAD_STOPPED_CODE ELSE @]
    IN [h EXCEPT !.rep = IF g.fd = "pending" THEN FdCallbacks(h) ELSE @]

\* jsonrpc_file_delete for the file with sd hash k: the registry entry of
\* the sd hash is deleted, then the file manager deletes the file
FileDelete(k) ==
    /\ Quiet
    /\ ~shutdown
    /\ k \in lbry_files
    /\ streams' = IF InStreams(k) THEN DelStream(k) ELSE streams
    /\ lbry_files' = lbry_files \ {k}
    /\ sess' = [s \in Sessions |->
          IF sess[s].key = k /\ sess[s].downloader THEN Deleted(sess[s]) ELSE sess[s]]
    /\ runq' = UNION {Woken(s, sess[s], sess'[s]) : s \in Sessions}
    /\ UNCHANGED <<call, nstreams, shutdown, runAtCancel, probe, areport,
                   est, avail, blobs>>

GetStep == \E p \in Callers, k \in Keys, ok \in BOOLEAN : JsonrpcGet(p, k, ok)
CallStep ==
    \E p \in Callers :
        \/ Resume(p)
        \/ \E ok \in BOOLEAN : FileDictDone(p, ok)
        \/ \E ok \in BOOLEAN : DownloadFailedDone(p, ok)
        \/ StopDone(p)
        \/ Return(p)
CollectStep == \E s \in Sessions : Collect(s)
TransferStep ==
    \E s \in Sessions :
        \/ SessFetchingMetadata(s)
        \/ SessRunning(s)
        \/ \E dl \in BOOLEAN : StartRaises(s, dl)
        \/ DataDownloading(s)
        \/ DddTimeout(s)
        \/ TransferFinished(s)
        \/ TransferFailed(s)
        \/ \E kind \in {"finished", "errored"}, ok \in BOOLEAN : ReportDone(s, kind, ok)
DeleteStep == \E k \in Keys : FileDelete(k)

Next == GetStep \/ CallStep \/ CollectStep \/ TransferStep \/ StopStreams \/ DeleteStep
Spec == Init /\ [][Next]_vars

\* the same program with no jsonrpc_file_delete call
NextAcquire == GetStep \/ CallStep \/ CollectStep \/ TransferStep \/ StopStreams
SpecAcquire == Init /\ [][NextAcquire]_vars

\* the program under the reactor's scheduling: a call that can resume, a
\* transfer that can settle and a GetStream that can be freed are not
\* postponed for ever; calls from outside (jsonrpc_get, jsonrpc_file_delete,
\* _shutdown) need not come
SpecShutdown ==
    Init /\ [][Next]_vars /\ WF_vars(CallStep \/ TransferStep \/ CollectStep)

TypeOK ==
    /\ streams \in [Keys -> 0..MaxSessions]
    /\ lbry_files \subseteq Keys
    /\ runq \subseteq Callers
    /\ nstreams \in 0..MaxStreams
    /\ \A p \in Callers : call[p].sess \in 0..MaxSessions
    /\ \A k \in Keys : InStreams(k) => sess[streams[k]].key = k


(***************************************************************************)
(* Daemon._blob_availability and Daemon.jsonrpc_peer_list                  *)
(***************************************************************************)

Nodes == 1..NumNodes
Hosts == 1..NumHosts
Ports == {3333}

\* the (node_id, host, port) triples iterativeFindValue can return
Contacts == Nodes \X Hosts \X Ports
ContactLists == UNION {[1..n -> Contacts] : n \in 0..MaxPeers}

\* jsonrpc_peer_list: results = [{"node_id": ..., "host": ..., "port": ...}
\* for node_id, host, port in peers]
PeerListResults(found) ==
    [i \in 1..Len(found) |->
        [node_id |-> found[i][1], host |-> found[i][2], port |-> found[i][3]]]

\* jsonrpc_peer_list, trap_timeout: err.trap(defer.TimeoutError); return []
TrapTimeout_none(err) == FALSE
TrapTimeout(err) == err = "TimeoutError"

\* x[i] for a dict x and an integer i: the keys of x are strings
HasIndex(x, i) == ToString(i) \in DOMAIN x

\* the list comprehension building peer_infos, with every peer taken
PeerInfos_byName(peers) ==
    [raised |-> FALSE,
     infos |-> [i \in 1..Len(peers) |-> [host |-> peers[i].host, port |-> peers[i].port]]]

\* peer_infos = [{"peer": Peer(x[0], x[1]), ...} for x in peers if x[2]]:
\* x[2] is evaluated for the first peer first and raises KeyError when the
\* dict has no key 2
PeerInfos(peers) ==
    IF \E i \in 1..Len(peers) : ~HasIndex(peers[i], 2)
    THEN [raised |-> TRUE, infos |-> <<>>]
    ELSE LET kept == SelectSeq(peers, LAMBDA x : x[ToString(2)] # 0)
         IN  [raised |-> FALSE,
              infos |-> [i \in 1..Len(kept) |->
                           [host |-> kept[i][ToString(0)], port |-> kept[i][ToString(1)]]]]

\* dl_peers.append("%s:%i" % (peer.host, peer.port))
Address(info) == <<info.host, info.port>>

\* the loop over zip(dl_peers, DeferredList results): the peers whose
\* attempt ended as `kind`, in order
RECURSIVE Picked(_, _, _)
Picked(dl_peers, dl, kind) ==
    IF dl_peers = <<>> \/ dl = <<>> THEN <<>>
    ELSE (IF Head(dl) = kind THEN <<Head(dl_peers)>> ELSE <<>>)
         \o Picked(Tail(dl_peers), Tail(dl), kind)

\* is_available = any(dl_results); dl_results holds the results of the
\* attempts that succeeded
IsAvailable_all(dl) == \A i \in 1..Len(dl) : dl[i] \in {"data", "empty"} => dl[i] = "data"
IsAvailable(dl) == \E i \in 1..Len(dl) : dl[i] = "data"

\* response = {'is_available': ..., 'reachable_peers': ...,
\* 'unreachable_peers': ...}
Response(is_available, reachable_peers, unreachable_peers) ==
    [is_available |-> is_available, reachable_peers |-> reachable_peers,
     unreachable_peers |-> unreachable_peers]

\* except Exception as err: result['error'] = ...; the response is built
\* from the initial is_available and lists
ProbeExcept(c, err) ==
    [c EXCEPT !.pc = "done", !.result = err, !.raised = Append(@, err),
              !.response = Response(FALSE, <<>>, <<>>)]

\* the DeferredList fired: classify the attempts and build the response
ProbeRespond(c) ==
    [c EXCEPT !.pc = "done",
              !.response = Response(IsAvailable(c.dl),
                                    Picked(c.dl_peers, c.dl, "data"),
                                    Picked(c.dl_peers, c.dl, "empty"))]

\* _blob_availability from the list jsonrpc_peer_list returned to the
\* yield of the DeferredList, which has fired already when dl is empty
ProbePeers(c, peers) ==
    LET pi == PeerInfos(peers)
        c1 == [c EXCEPT !.peers = peers]
    IN  IF pi.raised THEN ProbeExcept(c1, "KeyError")
        ELSE LET c2 == [c1 EXCEPT
                          !.dl = [i \in 1..Len(pi.infos) |-> "pending"],
                          !.dl_timeouts = [i \in 1..Len(pi.infos) |-> c.blob_timeout],
                          !.dl_peers = [i \in 1..Len(pi.infos) |-> Address(pi.infos[i])]]
             IN  IF pi.infos = <<>> THEN ProbeRespond(c2)
                 ELSE [c2 EXCEPT !.pc = "attempts"]

\* a timeout argument: left out, or a number of seconds
Timeouts == {"None", "0", "5"}

\* x or default: the default when x is None or 0
Or(x, default) == IF x \in {"None", "0"} THEN default ELSE x

\* _blob_availability up to its first suspension; valid: the blob hash
\* passes utils.is_valid_blobhash, found: what the DHT will find
BlobAvailability(valid, found, search_timeout, blob_timeout) ==
    /\ probe.pc = "idle"
    /\ LET c == [probe EXCEPT
                   !.args = [search_timeout |-> search_timeout,
                             blob_timeout |-> blob_timeout],
                   !.search_timeout = Or(search_timeout, "peer_search_timeout"),
                   !.blob_timeout = Or(blob_timeout, "sd_download_timeout")]
       IN  probe' =
             IF ~valid
             THEN ProbeExcept([c EXCEPT !.lookup = "invalid"], "invalid blob hash")
             ELSE [c EXCEPT !.pc = "lookup", !.found = found, !.lookup = "pending",
                            !.lookup_timeout = Or(c.search_timeout, "peer_search_timeout")]
    /\ UNCHANGED <<streams, sess, lbry_files, call, nstreams, runq, shutdown,
                   runAtCancel, areport, est, avail, blobs>>

\* the call resumed by the Deferred it waited on: the lookup ended with
\* ev ("found", "TimeoutError" or another error), or attempt i ended with
\* ev ("data", "empty" or "failed")
ProbeResume(ev, i) ==
    /\ CASE probe.pc = "lookup" ->
              /\ i = 1
              /\ ev \in {"found", "TimeoutError", "error"}
              /\ probe' =
                   IF ev = "found"
                   THEN ProbePeers([probe EXCEPT !.lookup = "peers"],
                                   PeerListResults(probe.found))
                   ELSE LET c == [probe EXCEPT !.lookup =
                                    IF ev = "TimeoutError" THEN "timeout" ELSE "error"]
                        IN  IF TrapTimeout(ev) THEN ProbePeers(c, <<>>)
                            ELSE ProbeExcept(c, ev)
         [] probe.pc = "attempts" ->
              /\ i \in 1..Len(probe.dl)
              /\ probe.dl[i] = "pending"
              /\ ev \in {"data", "empty", "failed"}
              /\ LET c == [probe EXCEPT
                             !.dl[i] = ev,
                             !.raised = IF ev = "failed" THEN Append(@, "failed") ELSE @]
                 IN  probe' = IF \A j \in 1..Len(c.dl) : c.dl[j] # "pending"
                              THEN ProbeRespond(c) ELSE c
         [] OTHER -> FALSE
    /\ UNCHANGED <<streams, sess, lbry_files, call, nstreams, runq, shutdown,
                   runAtCancel, areport, est, avail, blobs>>

\* the response has been returned; the next probe may start
ProbeReturn ==
    /\ probe.pc = "done"
    /\ probe' = IdleProbe
    /\ UNCHANGED <<streams, sess, lbry_files, call, nstreams, runq, shutdown,
                   runAtCancel, areport, est, avail, blobs>>

ProbeEvents == {"found", "TimeoutError", "error", "data", "empty", "failed"}
ProbeStep ==
    \/ \E valid \in BOOLEAN, found \in ContactLists, search_timeout \in Timeouts,
          blob_timeout \in Timeouts :
          BlobAvailability(valid, found, search_timeout, blob_timeout)
    \/ \E ev \in ProbeEvents, i \in 1..MaxPeers : ProbeResume(ev, i)
    \/ ProbeReturn

(***************************************************************************)
(* Daemon._get_stream_analytics_report                                     *)
(***************************************************************************)

StreamHashes == {"None", "stream_hash_1"}
BlobHosts == {"None", "host_1"}
BlobInfoLists == {<<>>, <<"blob_1">>, <<"blob_1", "blob_2">>}

\* try: value = yield lookup  except Exception: value = None
OrNone(ok, value) == IF ok THEN value ELSE "None"

\* the next suspension point after the host lookup: get_blobs_for_stream
\* is called only `if stream_hash:`
AfterHost(r) ==
    IF r.stream_hash # "None"
    THEN [r EXCEPT !.pc = "blobs"]
    ELSE [r EXCEPT !.pc = "done", !.known_blobs = 0, !.out = "report"]

\* _get_stream_analytics_report up to
\* `yield self.storage.get_stream_hash_for_sd_hash(sd_hash)`
GetStreamAnalyticsReport ==
    /\ areport.pc = "idle"
    /\ areport' = [areport EXCEPT !.pc = "stream_hash"]
    /\ UNCHANGED <<streams, sess, lbry_files, call, nstreams, runq, shutdown,
                   runAtCancel, probe, est, avail, blobs>>

\* get_stream_hash_for_sd_hash returned value, or raised (~ok)
StreamHashDone(ok, value) ==
    /\ areport.pc = "stream_hash"
    /\ areport' = [areport EXCEPT
                      !.pc = "host", !.stream_hash = OrNone(ok, value),
                      !.failed = IF ok THEN @ ELSE @ \cup {"stream_hash"}]
    /\ UNCHANGED <<streams, sess, lbry_files, call, nstreams, runq, shutdown,
                   runAtCancel, probe, est, avail, blobs>>

\* get_host_downloaded_from returned value, or raised (~ok)
HostDone(ok, value) ==
    /\ areport.pc = "host"
    /\ areport' = AfterHost([areport EXCEPT
                      !.sd_blob = OrNone(ok, value),
                      !.failed = IF ok THEN @ ELSE @ \cup {"sd_blob"}])
    /\ UNCHANGED <<streams, sess, lbry_files, call, nstreams, runq, shutdown,
                   runAtCancel, probe, est, avail, blobs>>

\* get_blobs_for_stream returned blob_infos, or raised (~ok): the yield
\* is in no try block
BlobsDone(ok, blob_infos) ==
    /\ areport.pc = "blobs"
    /\ areport' =
         IF ok
         THEN [areport EXCEPT !.pc = "done", !.known_blobs = Len(blob_infos),
                              !.out = "report"]
         ELSE [areport EXCEPT !.pc = "done", !.out = "raised",
                              !.failed = @ \cup {"known_blobs"}]
    /\ UNCHANGED <<streams, sess, lbry_files, call, nstreams, runq, shutdown,
                   runAtCancel, probe, est, avail, blobs>>

\* the report was returned (or the exception raised) to the caller
ReportReturn ==
    /\ areport.pc = "done"
    /\ areport' = IdleReport
    /\ UNCHANGED <<streams, sess, lbry_files, call, nstreams, runq, shutdown,
                   runAtCancel, probe, est, avail, blobs>>

ReportStep ==
    \/ GetStreamAnalyticsReport
    \/ \E ok \in BOOLEAN, value \in StreamHashes : StreamHashDone(ok, value)
    \/ \E ok \in BOOLEAN, value \in BlobHosts : HostDone(ok, value)
    \/ \E ok \in BOOLEAN, blob_infos \in BlobInfoLists : BlobsDone(ok, blob_infos)
    \/ ReportReturn

\* the probe and the report assembly, with no download in flight
NextProbe == ProbeStep \/ ReportStep
SpecProbe == Init /\ [][NextProbe]_vars

TypeOKProbe ==
    /\ probe.pc \in {"idle", "lookup", "attempts", "done"}
    /\ probe.found \in ContactLists
    /\ Len(probe.dl) = Len(probe.dl_peers)
    /\ areport.pc \in {"idle", "stream_hash", "host", "blobs", "done"}
    /\ areport.known_blobs \in 0..2

(***************************************************************************)
(* Daemon.get_est_cost and the functions it calls; jsonrpc_blob_get and    *)
(* jsonrpc_blob_delete.  An amount of LBC is an integer counting units of  *)
(* 10^-Digits LBC.                                                         *)
(***************************************************************************)

Digits == 7            \* decimal places an amount is kept to

\* the uris asked for; the second one is also a key of a resolve result
Uris == {"lbry://one", "claim"}

\* what a claim holds once decoded (ClaimDict.load_dict, smart_decode):
\* whether it decodes at all, is_stream, source_hash, and source_fee as
\* exchange_rate_manager.convert_currency gives it in LBC (0: no fee)
NoContent == [decodes |-> FALSE, is_stream |-> FALSE, source_hash |-> 0, source_fee |-> 0]
ClaimContents ==
    {NoContent, [NoContent EXCEPT !.decodes = TRUE]}
    \cup [decodes : {TRUE}, is_stream : {TRUE}, source_hash : Keys,
          source_fee : {0, 12345}]

\* the claim dict of a resolve result: 'value' is None and 'hex' does not
\* decode when the content does not decode
Claim(c) == [value |-> c, hex |-> c]

\* wallet.resolve(uri): it raises, or returns a dict that maps the uri to
\* {'error': ...} or to {'claim': ...}; a dict without the uri and an empty
\* entry are what lines 464 and 510 test for
ResolveErrors == {"UnknownNameError", "URIParseError"}
ResolveKinds == ResolveErrors \cup {"absent", "empty", "error", "claim"}
Results(uri, kind, c) ==
    CASE kind = "empty" -> [u \in {uri} |-> EmptyDict]
      [] kind = "error" -> [u \in {uri} |-> [error |-> "not resolvable"]]
      [] kind = "claim" -> [u \in {uri} |-> [claim |-> Claim(c)]]
      [] OTHER -> EmptyDict
Resolution(uri, kind, c) ==
    IF kind \in ResolveErrors THEN [raises |-> kind, results |-> EmptyDict]
    ELSE [raises |-> "none", results |-> Results(uri, kind, c)]

\* k in d, for a dict d
HasKey(d, k) == k \in DOMAIN d

\* the truth value of a dict
Truthy(d) == DOMAIN d # {}

\* the size argument: None, or a number of bytes given as int or as float
SizeBytes == {0, 500000, 1234000}
Sizes == [kind : {"int", "float"}, bytes : SizeBytes]

\* conf.settings['data_rate'], in units per 10^6 bytes
DataRates == {0, 1000}

\* _get_est_cost_from_stream_size: size / (10 ** 6) * data_rate; `/` on two
\* ints is floor division
EstCostFromStreamSize(generous, size, rate) ==
    IF generous THEN 0
    ELSE IF size.kind = "int" THEN (size.bytes \div (10 ^ 6)) * rate
         ELSE (size.bytes * rate) \div (10 ^ 6)

\* _add_key_fee_to_est_data_cost
AddKeyFeeToEstDataCost(fee, data_cost) ==
    LET fee_amount == IF fee = 0 THEN 0 ELSE fee
    IN  data_cost + fee_amount

\* round(x, n) for x >= 0: to the nearest multiple of 10^-n, halves upwards
Round(x, n) ==
    LET unit == 10 ^ (Digits - n)
    IN  ((x + unit \div 2) \div unit) * unit

\* how get_est_cost_from_sd_hash can end: with the sd blob, or with a Failure
EstFetches == {"blob", "DownloadSDTimeout", "error"}

\* _get_est_cost_from_metadata, _handle_err: every Failure gives 0.0
HandleErr(err) == 0

EstRaise(e, err) == [e EXCEPT !.pc = "done", !.result = "raised", !.raised = err]
EstNone(e) == [e EXCEPT !.pc = "done", !.result = "None"]
EstValue(e, v) == [e EXCEPT !.pc = "done", !.result = "cost", !.value = v]

\* a known size set aside and the cost taken from the descriptor
EstUsingKnownSize_viaDescriptor(e, r) ==
    IF r.raises # "none" THEN EstRaise(e, r.raises)
    ELSE IF HasKey(r.results, e.uri) /\ HasKey(r.results[e.uri], "claim")
         THEN LET claim == r.results[e.uri].claim
              IN  IF ~claim.value.decodes THEN EstRaise(e, "DecodeError")
                  ELSE [e EXCEPT !.pc = "sd_blob", !.fetched = TRUE,
                                 !.sd_hash = claim.value.source_hash,
                                 !.fee = claim.value.source_fee]
         ELSE EstNone(e)

\* get_est_cost_using_known_size from the answer of _resolve on:
\* _render_response hands the unrounded sum back
EstUsingKnownSize(e, r) ==
    IF r.raises # "none" THEN EstRaise(e, r.raises)
    ELSE IF HasKey(r.results, e.uri) /\ HasKey(r.results[e.uri], "claim")
         THEN LET claim == r.results[e.uri].claim
              IN  IF ~claim.value.decodes THEN EstRaise(e, "DecodeError")
                  ELSE EstValue(e, AddKeyFeeToEstDataCost(claim.value.source_fee, e.cost))
         ELSE EstNone(e)

\* get_est_cost_from_uri from the answer of _resolve to the yield of
\* _get_est_cost_from_metadata: resolved = (...)[uri], then resolved[uri]
EstFromUri(e, r) ==
    IF r.raises # "none" THEN EstRaise(e, r.raises)
    ELSE IF ~HasKey(r.results, e.uri) THEN EstRaise(e, "KeyError")
    ELSE LET resolved == r.results[e.uri]
         IN  IF ~Truthy(resolved) THEN EstNone(e)
             ELSE IF ~HasKey(resolved, e.uri) THEN EstRaise(e, "KeyError")
             ELSE LET claim_response == resolved[e.uri]
                  IN  IF Truthy(claim_response) /\ HasKey(claim_response, "claim")
                      THEN IF HasKey(claim_response.claim, "value")
                              /\ claim_response.claim.value.decodes
                           THEN [e EXCEPT !.pc = "sd_blob", !.fetched = TRUE,
                                    !.sd_hash = claim_response.claim.value.source_hash,
                                    !.fee = claim_response.claim.value.source_fee]
                           ELSE EstNone(e)
                      ELSE EstNone(e)

\* get_est_cost_from_sd_hash ended with ev: the sd blob (of a stream of
\* `bytes` bytes) or a Failure; then the key fee is added and the sum rounded
EstFromMetadata(e, ev, bytes) ==
    LET data_cost == IF ev = "blob"
                     THEN EstCostFromStreamSize(e.generous,
                                                [kind |-> "int", bytes |-> bytes], e.rate)
                     ELSE HandleErr(ev)
    IN  EstValue(e, Round(AddKeyFeeToEstDataCost(e.fee, data_cost), 5))

\* get_est_cost: if size is not None
EstPath(size) == IF size.kind # "None" THEN "known_size" ELSE "from_uri"

\* get_est_cost up to the yield of _resolve; sd_fetch: how a retrieval of
\* the descriptor blob will end
GetEstCost(uri, size, generous, rate, sd_fetch) ==
    /\ est.pc = "idle"
    /\ size.kind # "None" => sd_fetch = "blob"
    /\ est' = [IdleEst EXCEPT
                 !.uri = uri, !.size = size, !.generous = generous, !.rate = rate,
                 !.sd_fetch = sd_fetch, !.pc = EstPath(size),
                 !.cost = IF size.kind # "None"
                          THEN EstCostFromStreamSize(generous, size, rate) ELSE 0]
    /\ UNCHANGED <<streams, sess, lbry_files, call, nstreams, runq, shutdown,
                   runAtCancel, probe, areport, avail, blobs>>

\* the call resumed: by the answer of wallet.resolve (kind, c), or by the
\* end of the retrieval of the descriptor of a stream of `bytes` bytes
EstResume(kind, c, bytes) ==
    /\ CASE est.pc = "known_size" ->
              /\ bytes = 0
              /\ est' = EstUsingKnownSize([est EXCEPT !.resolved =
                                             Resolution(est.uri, kind, c)],
                                          Resolution(est.uri, kind, c))
              /\ blobs' = blobs
         [] est.pc = "from_uri" ->
              /\ bytes = 0
              /\ est' = EstFromUri([est EXCEPT !.resolved = Resolution(est.uri, kind, c)],
                                   Resolution(est.uri, kind, c))
              /\ blobs' = blobs
         [] est.pc = "sd_blob" ->
              /\ kind = "claim" /\ c = NoContent
              /\ est' = EstFromMetadata(est, est.sd_fetch, bytes)
              /\ blobs' = IF est.sd_fetch = "blob" THEN blobs \cup {est.sd_hash} ELSE blobs
         [] OTHER -> FALSE
    /\ UNCHANGED <<streams, sess, lbry_files, call, nstreams, runq, shutdown,
                   runAtCancel, probe, areport, avail>>

\* the estimate was returned (or the exception raised) to the caller
EstReturn ==
    /\ est.pc = "done"
    /\ est' = IdleEst
    /\ UNCHANGED <<streams, sess, lbry_files, call, nstreams, runq, shutdown,
                   runAtCancel, probe, areport, avail, blobs>>

EstStep ==
    \/ \E uri \in Uris, size \in Sizes \cup {NoSize}, generous \in BOOLEAN,
          rate \in DataRates, sd_fetch \in EstFetches :
          GetEstCost(uri, size, generous, rate, sd_fetch)
    \/ \E kind \in ResolveKinds, c \in ClaimContents, bytes \in SizeBytes :
          EstResume(kind, c, bytes)
    \/ EstReturn

\* jsonrpc_blob_get: the blob is downloaded into the blob manager, or
\* _download_blob fails and the call raises
BlobGet(blob_hash, ok) ==
    /\ blobs' = IF ok THEN blobs \cup {blob_hash} ELSE blobs
    /\ UNCHANGED <<streams, sess, lbry_files, call, nstreams, runq, shutdown,
                   runAtCancel, probe, areport, est, avail>>

\* jsonrpc_blob_delete: "Don't have that blob", or delete_blobs([blob_hash])
BlobDelete(blob_hash) ==
    /\ blobs' = IF blob_hash \notin blobs THEN blobs ELSE blobs \ {blob_hash}
    /\ UNCHANGED <<streams, sess, lbry_files, call, nstreams, runq, shutdown,
                   runAtCancel, probe, areport, est, avail>>

BlobStep ==
    \/ \E blob_hash \in Keys, ok \in BOOLEAN : BlobGet(blob_hash, ok)
    \/ \E blob_hash \in Keys : BlobDelete(blob_hash)

\* cost estimates and blob calls, with no download in flight
NextCost == EstStep \/ BlobStep
SpecCost == Init /\ [][NextCost]_vars

TypeOKCost ==
    /\ est.pc \in {"idle", "known_size", "from_uri", "sd_blob", "done"}
    /\ est.result \in {"none", "None", "cost", "raised"}
    /\ est.value \in Nat
    /\ blobs \subseteq Keys

(***************************************************************************)
(* Daemon.jsonrpc_stream_availability                                      *)
(***************************************************************************)

\* how jsonrpc_blob_get(sd_hash, encoding="json") can end: the decoded
\* descriptor with its 'blobs', a decoded blob without 'blobs', a blob that
\* json.loads rejects, or a failed download
SdFetches == {"blobs", "no_blobs", "not_json", "failed"}

\* what _blob_availability returns: through its except clause, or with no
\* fetch attempt issued
ProbeReports == {ProbeExcept(IdleProbe, "KeyError").response,
                 ProbeRespond(IdleProbe).response}

PyBool(b) == IF b THEN "True" ELSE "False"

\* d.get(k) for a dict d of booleans
Get(d, k) == IF HasKey(d, k) THEN PyBool(d[k]) ELSE "None"

\* a and b
PyAnd(a, b) == IF a = "True" THEN b ELSE a

AvailRaise(a, err) == [a EXCEPT !.pc = "done", !.result = "raised", !.raised = err]

\* response['error'] = ...; defer.returnValue(response)
AvailError(a, error) ==
    [a EXCEPT !.pc = "done", !.result = "returned", !.response.error = error]

\* jsonrpc_stream_availability from the answer of _resolve to the yield of
\* jsonrpc_blob_get: resolved_result = (...)[uri], then
\* smart_decode(resolved_result[uri]['claim']['hex'])
AvailResolved(a, r, store) ==
    IF r.raises = "UnknownNameError" THEN AvailError(a, "Failed to resolve name")
    ELSE IF r.raises = "URIParseError" THEN AvailError(a, "Invalid URI")
    ELSE IF ~HasKey(r.results, a.uri) THEN AvailRaise(a, "KeyError")
    ELSE LET resolved_result == r.results[a.uri]
             a1 == [a EXCEPT !.response.did_resolve = TRUE]
         IN  IF ~HasKey(resolved_result, a.uri) THEN AvailRaise(a1, "KeyError")
             ELSE IF ~HasKey(resolved_result[a.uri], "claim") THEN AvailRaise(a1, "KeyError")
             ELSE IF ~HasKey(resolved_result[a.uri].claim, "hex")
                  THEN AvailRaise(a1, "KeyError")
             ELSE LET claim_obj == resolved_result[a.uri].claim.hex
                  IN  IF ~claim_obj.decodes
                      THEN AvailError(a1, "Failed to decode claim value")
                      ELSE LET a2 == [a1 EXCEPT !.response.did_decode = TRUE,
                                                !.response.is_stream = claim_obj.is_stream]
                           IN  IF ~claim_obj.is_stream
                               THEN AvailError(a2, "Claim does not contain a stream")
                               ELSE [a2 EXCEPT
                                       !.pc = "blob_get", !.fetched = TRUE,
                                       !.response.sd_hash = claim_obj.source_hash,
                                       !.have_sd_blob = claim_obj.source_hash \in store]

\* the blob store once jsonrpc_blob_get has ended with ev and, when it
\* returned and the blob was not there before, jsonrpc_blob_delete has run
AfterFetch(store, sd_hash, have_sd_blob, ev) ==
    CASE ev = "failed" -> store
      [] ev = "not_json" -> store \cup {sd_hash}
      [] OTHER -> IF have_sd_blob THEN store \cup {sd_hash} ELSE store \ {sd_hash}

\* lines 3112-3126 once jsonrpc_blob_get has ended with ev; head: the hash
\* of the first blob of the descriptor
AvailFetched(a, ev, head) ==
    CASE ev = "blobs" ->
           [a EXCEPT !.pc = "head_probe", !.head_blob_hash = head,
                     !.response.num_blobs_in_stream = "some",
                     !.probed = Append(@, head)]
      [] ev = "no_blobs" ->
           [a EXCEPT !.pc = "sd_probe", !.probed = Append(@, a.response.sd_hash)]
      [] OTHER ->
           [a EXCEPT !.pc = "sd_probe", !.response.error = ev,
                     !.probed = Append(@, a.response.sd_hash)]

\* the probe of the head blob returned report
AvailHeadProbed(a, report) ==
    [a EXCEPT !.pc = "sd_probe", !.response.head_blob_availability = report,
              !.response.head_blob_hash = a.head_blob_hash,
              !.probed = Append(@, a.response.sd_hash)]

\* the probe of the sd blob returned report: lines 3127-3133
AvailSdProbed(a, report) ==
    [a EXCEPT !.pc = "done", !.result = "returned",
              !.response.head_blob_hash = a.head_blob_hash,
              !.response.sd_blob_availability = report,
              !.response.is_available =
                  PyAnd(Get(report, "is_available"),
                        Get(a.response.head_blob_availability, "is_available"))]

\* jsonrpc_stream_availability up to the yield of _resolve
StreamAvailability(uri, search_timeout, blob_timeout, use_upnp, upnp_redirect_is_set, sd_fetch) ==
    /\ avail.pc = "idle"
    /\ avail' = [IdleAvail EXCEPT
                   !.pc = "resolve", !.uri = uri, !.sd_fetch = sd_fetch, !.blobs0 = blobs,
                   !.args = [search_timeout |-> search_timeout,
                             blob_timeout |-> blob_timeout],
                   !.search_timeout = Or(search_timeout, "peer_search_timeout"),
                   !.blob_timeout = Or(blob_timeout, "sd_download_timeout"),
                   !.response = AvailResponse(use_upnp, upnp_redirect_is_set)]
    /\ UNCHANGED <<streams, sess, lbry_files, call, nstreams, runq, shutdown,
                   runAtCancel, probe, areport, est, blobs>>

\* the call resumed: by the answer of wallet.resolve (kind, c), by the end
\* of jsonrpc_blob_get (for a descriptor whose first blob is head), or by
\* the report of a probe
AvailResume(kind, c, head, report) ==
    /\ CASE avail.pc = "resolve" ->
              /\ head = 1
              /\ avail' = AvailResolved([avail EXCEPT !.resolved =
                                           Resolution(avail.uri, kind, c)],
                                        Resolution(avail.uri, kind, c), blobs)
              /\ blobs' = blobs
         [] avail.pc = "blob_get" ->
              /\ kind = "claim" /\ c = NoContent
              /\ avail' = AvailFetched(avail, avail.sd_fetch, head)
              /\ blobs' = AfterFetch(blobs, avail.response.sd_hash, avail.have_sd_blob,
                                     avail.sd_fetch)
         [] avail.pc = "head_probe" ->
              /\ kind = "claim" /\ c = NoContent /\ head = 1
              /\ avail' = AvailHeadProbed(avail, report)
              /\ blobs' = blobs
         [] avail.pc = "sd_probe" ->
              /\ kind = "claim" /\ c = NoContent /\ head = 1
              /\ avail' = AvailSdProbed(avail, report)
              /\ blobs' = blobs
         [] OTHER -> FALSE
    /\ UNCHANGED <<streams, sess, lbry_files, call, nstreams, runq, shutdown,
                   runAtCancel, probe, areport, est>>

\* the response was returned (or the exception raised) to the caller
AvailReturn ==
    /\ avail.pc = "done"
    /\ avail' = IdleAvail
    /\ UNCHANGED <<streams, sess, lbry_files, call, nstreams, runq, shutdown,
                   runAtCancel, probe, areport, est, blobs>>

AvailStep ==
    \/ \E uri \in Uris, search_timeout \in Timeouts, blob_timeout \in Timeouts,
          use_upnp \in BOOLEAN, upnp_redirect_is_set \in BOOLEAN, sd_fetch \in SdFetches :
          StreamAvailability(uri, search_timeout, blob_timeout, use_upnp,
                             upnp_redirect_is_set, sd_fetch)
    \/ \E kind \in ResolveKinds, c \in ClaimContents, head \in Keys,
          report \in ProbeReports : AvailResume(kind, c, head, report)
    \/ AvailReturn

\* availability checks and blob calls, with no download in flight
NextAvail == AvailStep \/ BlobStep
SpecAvail == Init /\ [][NextAvail]_vars

TypeOKAvail ==
    /\ avail.pc \in {"idle", "resolve", "blob_get", "head_probe", "sd_probe", "done"}
    /\ avail.result \in {"none", "returned", "raised"}
    /\ avail.response.is_available \in {"True", "False", "None"}
    /\ blobs \subseteq Keys

(***************************************************************************)
(* Properties                                                              *)
(***************************************************************************)

Range(f) == {f[i] : i \in DOMAIN f}

\* call p is inside _download_name as the call that created the session
\* of sd hash k
Creating(p, k) ==
    /\ call[p].role = "creator"
    /\ call[p].key = k
    /\ call[p].pc \in {"start", "file_dict", "download_failed", "stopping"}

\* call q enters jsonrpc_get for sd hash k in this step
Enters(q, k) == call[q].pc = "idle" /\ call'[q].pc # "idle" /\ call'[q].key = k

C2_SameOutcome ==
    \A p \in Callers :
        (/\ call[p].pc = "done"
         /\ call[p].role = "attached"
         /\ sess[call[p].sess].outcome # "none")
            => call[p].result = sess[call[p].sess].outcome

\* the transfer of a GetStream object has been started and has not settled
Unsettled(g) ==
    /\ g.started # "unused"
    /\ IF g.fd = "none" THEN g.started = "pending" ELSE g.fd = "pending"

\* C3: at most one started and unsettled transfer exists per sd hash.
C3_OneTransferPerKey ==
    \A k \in Keys :
        Cardinality({s \in Sessions : sess[s].key = k /\ Unsettled(sess[s])}) <= 1

\* C4: when a jsonrpc_get call has settled, its sd hash is not in
\* self.streams.
C4_AbsentAfterSettle ==
    \A p \in Callers : call[p].pc = "done" => ~InStreams(call[p].key)

Finalizes(p, k) ==
    /\ Creating(p, k)
    /\ call'[p].pc = "done"
    /\ sess[call[p].sess].started \in {"returned", "raised"}

C6_RemovedOnAnalyticsFailure ==
    [][\A p \in Callers :
         (/\ call[p].pc = "download_failed"
          /\ call'[p].pc = "done"
          /\ call'[p].afail)
             => /\ streams'[call[p].key] = 0
                /\ \A k \in Keys : streams'[k] # call[p].sess]_vars

\* start raised, the failure report raised too, and the call is over
C6_Witness ==
    \E p \in Callers :
        /\ call[p].pc = "done"
        /\ call[p].role = "creator"
        /\ call[p].afail
        /\ call[p].result = "raised"
        /\ sess[call[p].sess].started = "raised"
        /\ ~InStreams(call[p].key)

\* C7: the finalization of a creating call whose registry entry is gone
\* does not raise.
C7_FinalizationTolerant ==
    \A p \in Callers :
        (call[p].pc = "done" /\ call[p].role = "creator")
            => call[p].result # "KeyError"

\* C8: the _stop_streams step cancels, with the shutdown reason, every
\* session registered when it runs; it resumes no call, leaves the
\* registry as it is and sends no analytics event.
C8_StopStreamsCancelsAll ==
    [][(~shutdown /\ shutdown') =>
          /\ \A k \in Keys :
               InStreams(k) => sess'[streams[k]].cancelled = SHUTDOWN_REASON
          /\ call' = call
          /\ streams' = streams
          /\ \A s \in Sessions : sess'[s].events = sess[s].events]_vars

\* _stop_streams ran with a session registered under every sd hash and
\* the calls that created them still in flight
C8_Witness ==
    /\ shutdown
    /\ \A k \in Keys :
         /\ InStreams(k)
         /\ sess[streams[k]].cancelled = SHUTDOWN_REASON
         /\ \E p \in Callers : Creating(p, k)

C10_StopBeforeRemoval ==
    [][\A p \in Callers :
         (/\ call[p].pc = "download_failed"
          /\ call'[p].pc = "done")
             => ~(/\ sess[call[p].sess].downloader
                  /\ sess[call[p].sess].code # DOWNLOAD_RUNNING_CODE)]_vars

\* C11: a creating call whose start() raised returns the error as a
\* result value, and a "download errored" event was sent for its session.
C11_FailureReported ==
    \A p \in Callers :
        (/\ call[p].pc = "done"
         /\ call[p].role = "creator"
         /\ sess[call[p].sess].started = "raised")
            => /\ call[p].result = "error_dict"
               /\ "errored" \in Range(sess[call[p].sess].events)

\* C12: no jsonrpc_get call ends with a failure of the analytics manager
\* or of the report assembly raised to its caller.
C12_AnalyticsNeverEscalated ==
    \A p \in Callers : call[p].pc = "done" => ~call[p].afail

\* C14: a call that found a session of its sd hash in self.streams does
\* not raise; it returns a result.
C14_AttachedNeverRaises ==
    \A p \in Callers :
        (call[p].pc = "done" /\ call[p].role = "attached")
            => call[p].result # "raised"

\* C13: _get_stream_analytics_report returns a report whichever of its
\* lookups fail.
C13_ReportAlwaysProduced ==
    areport.pc = "done" => areport.out = "report"

\* the addresses of the candidate peers of the probe
Candidates == {<<probe.peers[i].host, probe.peers[i].port>> : i \in 1..Len(probe.peers)}

\* C15: the reachable and unreachable peers of a returned report are
\* disjoint, are addresses of candidate peers, and number K at most.
C15_ListsWithinCandidates ==
    probe.pc = "done" =>
        LET r == probe.response.reachable_peers
            u == probe.response.unreachable_peers
        IN  /\ Range(r) \cap Range(u) = {}
            /\ Range(r) \cup Range(u) \subseteq Candidates
            /\ Len(r) + Len(u) <= Len(probe.peers)

\* a probe with two candidate peers at one address has returned
C15_Witness ==
    /\ probe.pc = "done"
    /\ probe.lookup = "peers"
    /\ Len(probe.peers) = 2
    /\ Cardinality(Candidates) = 1

\* C16: in a returned report every candidate peer whose attempt gave a
\* non-empty result is listed as reachable, no other peer is, and every
\* other candidate peer is listed as unreachable.
C16_EveryCandidateClassified ==
    probe.pc = "done" =>
        \A a \in Candidates :
            LET got == \E i \in 1..Len(probe.dl) :
                           probe.dl_peers[i] = a /\ probe.dl[i] = "data"
            IN  /\ a \in Range(probe.response.reachable_peers) <=> got
                /\ ~got => a \in Range(probe.response.unreachable_peers)

\* C17: a returned report of a probe during which an error was raised
\* has an error field holding the first error raised.
C17_FirstErrorReported ==
    (probe.pc = "done" /\ probe.raised # <<>>) =>
        /\ "error" \in DOMAIN probe.response
        /\ probe.response["error"] = probe.raised[1]

\* C18: is_available of a returned report is true exactly if some
\* attempt of the call succeeded with a non-empty result, which is
\* exactly if reachable_peers is not empty.
C18_AvailableIffReachable ==
    probe.pc = "done" =>
        /\ probe.response.is_available <=>
               \E i \in 1..Len(probe.dl) : probe.dl[i] = "data"
        /\ probe.response.is_available <=> probe.response.reachable_peers # <<>>

\* a probe whose lookup returned (an empty list or on timeout) has
\* returned its report
C18_Witness ==
    /\ probe.pc = "done"
    /\ probe.lookup \in {"peers", "timeout"}
    /\ probe.raised = <<>>

\* C20: a lookup that exceeded the search timeout gives the empty list,
\* and the probe returns is_available false, no peers and no error.
C20_LookupTimeoutIsEmpty ==
    (probe.pc = "done" /\ probe.lookup = "timeout") =>
        /\ probe.peers = <<>>
        /\ probe.raised = <<>>
        /\ probe.result = "none"
        /\ probe.response = Response(FALSE, <<>>, <<>>)

\* the lookup of a probe timed out and the probe has returned
C20_Witness ==
    /\ probe.pc = "done"
    /\ probe.lookup = "timeout"
    /\ probe.found # <<>>

(***************************************************************************)
(* The cost estimate                                                       *)
(***************************************************************************)

\* resolution yields a usable claim: the answer maps the uri to a claim
\* whose value decodes
UsableClaim(r, uri) ==
    /\ r.raises = "none"
    /\ HasKey(r.results, uri)
    /\ HasKey(r.results[uri], "claim")
    /\ r.results[uri].claim.value.decodes

\* the key fee of the claim the uri resolved to
KeyFee(r, uri) == r.results[uri].claim.value.source_fee

EstDone == est.pc = "done"

\* C21: when get_est_cost_from_uri resolves a usable claim and the
\* retrieval of the descriptor blob times out, the call does not raise and
\* returns the key fee alone (zero if the claim declares no fee).
C21_TimeoutGivesKeyFee ==
    (EstDone /\ est.size.kind = "None" /\ UsableClaim(est.resolved, est.uri)
       /\ est.sd_fetch = "DownloadSDTimeout")
    => (est.result = "cost" /\ est.value = Round(KeyFee(est.resolved, est.uri), 5))

\* C22: get_est_cost, with or without a size, returns None when the
\* resolution yields no usable claim, and a number when it yields one.
C22_NoneIffNoUsableClaim ==
    (EstDone /\ est.resolved.raises = "none")
    => IF UsableClaim(est.resolved, est.uri) THEN est.result = "cost"
       ELSE est.result = "None"

\* C23: the cost of a stream of a given size is zero under a generous
\* payment policy and size / 10^6 * rate otherwise, so that it is positive
\* for a positive size under a positive rate.
C23_CostProportionalToSize ==
    (est.pc \in {"known_size", "done"} /\ est.size.kind # "None")
    => /\ est.generous => est.cost = 0
       /\ ~est.generous => est.cost * (10 ^ 6) = est.size.bytes * est.rate
       /\ (~est.generous /\ est.size.bytes > 0 /\ est.rate > 0) => est.cost > 0

\* C24: every number get_est_cost returns, with or without a size, is
\* rounded to 5 decimal places.
C24_ReturnedCostRounded ==
    (EstDone /\ est.result = "cost") => est.value = Round(est.value, 5)

\* C25: a step of a get_est_cost call that was given a size (0 included)
\* leaves the blob store as it is, and the call never asks for the
\* descriptor blob.
C25_KnownSizeFetchesNothing ==
    [][((est.size.kind # "None" \/ est'.size.kind # "None") /\ est' # est)
       => (blobs' = blobs /\ ~est'.fetched)]_vars

\* a call with size 0 has returned a cost for a claim whose descriptor
\* blob is not in the blob store
C25_Witness ==
    /\ EstDone /\ est.size.kind = "int" /\ est.size.bytes = 0
    /\ est.result = "cost"
    /\ UsableClaim(est.resolved, est.uri)
    /\ est.resolved.results[est.uri].claim.value.source_hash \in Keys \ blobs

(***************************************************************************)
(* The stream availability check                                           *)
(***************************************************************************)

AvailDone == avail.pc = "done"

\* the resolver answered with a claim for the uri
HasClaim(r, uri) ==
    /\ r.raises = "none"
    /\ HasKey(r.results, uri)
    /\ HasKey(r.results[uri], "claim")

\* what that claim holds
ClaimOf(r, uri) == r.results[uri].claim.hex

\* the uri resolved to a claim that decodes to a stream claim
StreamClaim(r, uri) ==
    HasClaim(r, uri) /\ ClaimOf(r, uri).decodes /\ ClaimOf(r, uri).is_stream

\* the call asked for no blob and probed no peer
NoFetchNoProbe == ~avail.fetched /\ avail.probed = <<>>

\* C26: for a uri that resolves and decodes to a claim that is not a
\* stream claim, jsonrpc_stream_availability returns is_stream False,
\* is_available False and an error, and fetches and probes nothing.
C26_NonStreamShortCircuits ==
    (AvailDone /\ HasClaim(avail.resolved, avail.uri)
       /\ ClaimOf(avail.resolved, avail.uri).decodes
       /\ ~ClaimOf(avail.resolved, avail.uri).is_stream)
    => /\ avail.result = "returned"
       /\ ~avail.response.is_stream
       /\ avail.response.is_available = "False"
       /\ avail.response.error # "None"
       /\ NoFetchNoProbe

\* C27: a resolve failure returns did_resolve False with an error, a claim
\* that does not decode returns did_resolve True, did_decode False with an
\* error, and neither fetches or probes anything.
C27_ResolveAndDecodeFailuresReturn ==
    /\ (AvailDone /\ avail.resolved.raises \in ResolveErrors)
       => /\ avail.result = "returned"
          /\ ~avail.response.did_resolve
          /\ avail.response.error # "None"
          /\ NoFetchNoProbe
    /\ (AvailDone /\ HasClaim(avail.resolved, avail.uri)
          /\ ~ClaimOf(avail.resolved, avail.uri).decodes)
       => /\ avail.result = "returned"
          /\ avail.response.did_resolve
          /\ ~avail.response.did_decode
          /\ avail.response.error # "None"
          /\ NoFetchNoProbe

\* C28: for a stream claim whose descriptor blob cannot be fetched, the
\* failure is recorded in error and the probe of the sd blob still runs,
\* its report being stored in sd_blob_availability.
C28_FetchFailureStillProbes ==
    (AvailDone /\ StreamClaim(avail.resolved, avail.uri) /\ avail.sd_fetch = "failed")
    => /\ avail.result = "returned"
       /\ avail.response.error # "None"
       /\ \E i \in 1..Len(avail.probed) : avail.probed[i] = avail.response.sd_hash
       /\ Truthy(avail.response.sd_blob_availability)

\* C30: for a stream claim the is_available returned is a boolean, and it
\* is True exactly when the reports of the sd blob probe and of the head
\* blob probe both say available.
C30_AvailableIffBothProbes ==
    (AvailDone /\ StreamClaim(avail.resolved, avail.uri))
    => /\ avail.result = "returned"
       /\ avail.response.is_available \in {"True", "False"}
       /\ avail.response.is_available = "True"
            <=> /\ Get(avail.response.sd_blob_availability, "is_available") = "True"
                /\ Get(avail.response.head_blob_availability, "is_available") = "True"

\* C31: jsonrpc_stream_availability never raises: whatever its
\* collaborators answer, it returns its response, with an error in it
\* unless the uri resolved to a stream claim.
C31_NeverRaises ==
    AvailDone =>
        /\ avail.result = "returned"
        /\ ~StreamClaim(avail.resolved, avail.uri) => avail.response.error # "None"

\* C32: in a returned response did_decode implies did_resolve, is_stream
\* implies did_decode, sd_hash and the two availability reports are set
\* only if is_stream, is_available True implies is_stream, and after a
\* failed resolve every field but error holds its default.
C32_LaterFieldsKeepDefaults ==
    (AvailDone /\ avail.result = "returned") =>
        LET r == avail.response
        IN  /\ r.did_decode => r.did_resolve
            /\ r.is_stream => r.did_decode
            /\ r.sd_hash # 0 => r.is_stream
            /\ Truthy(r.sd_blob_availability) => r.is_stream
            /\ Truthy(r.head_blob_availability) => r.is_stream
            /\ r.is_available = "True" => r.is_stream
            /\ avail.resolved.raises \in ResolveErrors =>
                 [r EXCEPT !.error = "None"]
                     = AvailResponse(r.use_upnp, r.upnp_redirect_is_set)

\* a call whose resolve failed has returned its response with the error
C32_Witness ==
    /\ AvailDone /\ avail.result = "returned"
    /\ avail.resolved.raises = "UnknownNameError"
    /\ avail.response.error = "Failed to resolve name"
    /\ ~avail.response.did_resolve

\* C33: a probe issues one fetch attempt for each candidate peer the
\* lookup returned, and keeps each attempt with the address of its peer.
C33_OneAttemptPerCandidate ==
    (probe.pc = "done" /\ probe.lookup = "peers") =>
        /\ Len(probe.dl) = Len(probe.peers)
        /\ Len(probe.dl_peers) = Len(probe.peers)
        /\ \A i \in 1..Len(probe.dl_peers) :
               probe.dl_peers[i] = <<probe.peers[i].host, probe.peers[i].port>>

\* the timeout in use is the one the caller passed, and the configured
\* default exactly when the caller passed none
UsesSupplied(arg, used, default) ==
    /\ arg # "None" => used = arg
    /\ arg = "None" <=> used = default

\* C34: the search timeout the caller passed to a probe is the one put on
\* the lookup, the blob timeout it passed is the one of every fetch
\* attempt, and peer_search_timeout and sd_download_timeout are used
\* exactly when the caller passed none.
C34_SuppliedTimeoutUsed ==
    (probe.pc \in {"lookup", "attempts", "done"} /\ probe.lookup # "invalid") =>
        /\ UsesSupplied(probe.args.search_timeout, probe.lookup_timeout,
                        "peer_search_timeout")
        /\ UsesSupplied(probe.args.blob_timeout, probe.blob_timeout,
                        "sd_download_timeout")
        /\ \A i \in 1..Len(probe.dl_timeouts) : probe.dl_timeouts[i] = probe.blob_timeout

\* C35: when get_est_cost_from_uri resolves a usable claim and the
\* retrieval or the parsing of the descriptor fails with anything but a
\* timeout, the descriptor was asked for and that failure is raised to the
\* caller.
C35_OtherFailuresPropagate ==
    (EstDone /\ est.size.kind = "None" /\ UsableClaim(est.resolved, est.uri)
       /\ est.sd_fetch = "error")
    => (est.fetched /\ est.result = "raised" /\ est.raised = est.sd_fetch)

\* C36: a jsonrpc_get made for content whose file the file manager already
\* has returns the description of that file, and creates no session, starts
\* no transfer and emits no "download started": unless it first waits on the
\* data_downloading_deferred of a registered session, the call is done in
\* the step that makes it, with the file's description, and the registry,
\* the sessions and the count of created sessions are as before.
C36_ExistingFileDescribed ==
    [][\A p \in Callers :
         (/\ call[p].pc = "idle"
          /\ call'[p].pc # "idle"
          /\ call'[p].key \in lbry_files)
         => \/ call'[p].pc = "wait_ddd"
            \/ /\ call'[p].pc = "done"
               /\ call'[p].result = "file_dict"
               /\ streams' = streams
               /\ sess' = sess
               /\ nstreams' = nstreams]_vars

\* the session registry is empty
RegistryEmpty == \A k \in Keys : streams[k] = 0

\* C37: after _shutdown has cancelled the sessions (no jsonrpc_get is served
\* from then on, and every pending start settles), the session registry
\* eventually becomes empty, and every entry that leaves the registry after
\* the shutdown is removed by the finalization of the call that created the
\* session registered there.
C37_ShutdownDrainsRegistry ==
    /\ shutdown ~> RegistryEmpty
    /\ [][\A k \in Keys :
            (shutdown /\ streams[k] # 0 /\ streams'[k] = 0)
            => \E p \in Callers :
                 /\ call[p].role = "creator"
                 /\ call[p].key = k
                 /\ call[p].sess = streams[k]
                 /\ call'[p].pc = "done"]_vars

\* the terminal analytics events sent for session s
TerminalEvents(s) ==
    {i \in 1..Len(sess[s].events) : sess[s].events[i] \in {"finished", "errored"}}

\* C38: for every session created by _download_name exactly one "download
\* started" event is sent and it is the first event of the session, and at
\* most one terminal event ("download finished" or "download errored") is
\* sent for it.
C38_OneStartedOneTerminal ==
    \A s \in Sessions :
        sess[s].started # "unused" =>
            /\ Len(sess[s].events) >= 1
            /\ sess[s].events[1] = "started"
            /\ \A i \in 2..Len(sess[s].events) : sess[s].events[i] # "started"
            /\ Cardinality(TerminalEvents(s)) <= 1

\* C39: a jsonrpc_get call for sd_hash k changes the session registry only
\* at key k: every step of the call, from the one that makes it to the one
\* that returns, leaves the entries of all other sd hashes as they are.
C39_RegistryChangedOnlyAtKey ==
    [][\A p \in Callers :
         call'[p] # call[p] =>
            \A j \in Keys :
                (j # call[p].key /\ j # call'[p].key) => streams'[j] = streams[j]]_vars

\* a creating call has run its finally clause while a session of another
\* sd hash is registered
C39_Witness ==
    \E p \in Callers :
        /\ call[p].pc = "done"
        /\ call[p].role = "creator"
        /\ streams[call[p].key] = 0
        /\ \E j \in Keys : j # call[p].key /\ streams[j] # 0
====
